---- MODULE Spec2Model ----
(***************************************************************************)
(* Model of QUANTAXIS/QAFactor/fetcher.py: the two remote (tushare)        *)
(* fetchers with their sleep-and-recurse retry helpers, and the local      *)
(* (MongoDB) query builders QA_fetch_financial_adv and                     *)
(* QA_fetch_last_financial.                                                *)
(*                                                                         *)
(* A pd.Timestamp is a record [y, m, d, tod]; tod = 0 is midnight and      *)
(* tod = 1 stands for any later time of that day.  The absent value None   *)
(* of a date parameter is NoDate.  A "%Y%m%d" string is the integer        *)
(* y*10000 + m*100 + d.                                                    *)
(***************************************************************************)
EXTENDS Integers, Sequences, FiniteSets, TLC

VARIABLES pc, fn, args, report_dates, trial_count, trace, results, outcome,
          coll, qry, fields, rows

vars == <<pc, fn, args, report_dates, trial_count, trace, results, outcome,
          coll, qry, fields, rows>>

-----------------------------------------------------------------------------
(* Bounds of the model *)

\* largest max_trial a caller passes
MaxTrial == 2

\* largest number of documents in the local collection
MaxRecords == 2

-----------------------------------------------------------------------------
(* Dates *)

NoDate == [y |-> 0, m |-> 0, d |-> 0, tod |-> 0]

Ts(ymd, t) == [y |-> ymd \div 10000, m |-> (ymd \div 100) % 100, d |-> ymd % 100, tod |-> t]

\* bool(x) of a date parameter: None is falsy
Given(ts) == ts # NoDate

\* ts.strftime("%Y%m%d")
strftime(ts) == ts.y * 10000 + ts.m * 100 + ts.d

\* order of pd.Timestamp values (the date first, then the time of day)
TsKey(ts) == strftime(ts) * 2 + ts.tod

REPORT_DATE_TAILS == <<331, 630, 930, 1231>>

SHEET_TYPE == {"income", "balancesheet", "cashflow"}

\* the sheet types the individual fetcher accepts
INDIVIDUAL_SHEET_TYPE == {"income", "balancesheet", "cashflow", "forecast", "express"}

\* range(1, 13)
REMOTE_REPORT_TYPE == 1..12

-----------------------------------------------------------------------------
(* Inputs of the remote fetchers *)

ReportDateInputs == {NoDate, Ts(20200331, 0), Ts(20200331, 1), Ts(20200330, 0), Ts(20201231, 0)}

StartInputs == {NoDate, Ts(20191231, 0), Ts(20200101, 0), Ts(20200331, 1)}

EndInputs == {NoDate, Ts(20200101, 0), Ts(20200331, 0), Ts(20200630, 0)}

SheetTypeInputs == {"income", "express", "stock_basic"}

RemoteReportTypeInputs == {1, 12, 13}

WaitSecondsInputs == {1, 61}

RemoteArgs == [start : StartInputs, end : EndInputs, report_date : ReportDateInputs,
               sheet_type : SheetTypeInputs, report_type : RemoteReportTypeInputs,
               wait_seconds : WaitSecondsInputs, max_trial : 0..MaxTrial]

-----------------------------------------------------------------------------
(* Outcomes of a call and events of its trace *)

Running == [kind |-> "running", msg |-> ""]

Returned == [kind |-> "returned", msg |-> ""]

Raise(k, m) == [kind |-> k, msg |-> m]

\* one remote call pro.<api>(period=..., report_type=...), ok = it did not raise
QueryEvent(api, period, rt, ok) ==
    [kind |-> "query", api |-> api, period |-> period, report_type |-> rt, ok |-> ok, secs |-> 0]

\* one time.sleep(secs)
SleepEvent(secs) ==
    [kind |-> "sleep", api |-> "", period |-> 0, report_type |-> 0, ok |-> FALSE, secs |-> secs]

\* one read of the cursor of coll.find(...) on DATABASE.<api>, ok = it did not raise
FindEvent(api, ok) ==
    [kind |-> "find", api |-> api, period |-> 0, report_type |-> 0, ok |-> ok, secs |-> 0]

-----------------------------------------------------------------------------
(* The retry helpers _get_individual_financial / _get_crosssection_financial *)

\* an off-by-one trial check
ExceedMaxTrial_gt(tc, max_trial) == tc > max_trial

\* if trial_count >= max_trial: raise ValueError("[ERROR]\tEXCEED MAX TRIAL!")
ExceedMaxTrial(tc, max_trial) == tc >= max_trial

\* a wait that grows with the attempts
SleepSeconds_backoff(wait_seconds, tc) == wait_seconds * (tc + 1)

\* time.sleep(wait_seconds) of the attempt numbered tc
SleepSeconds(wait_seconds, tc) == wait_seconds

\* every frame returns the value of the call it made
HelperReturn_kept(tc, val) == val

\* What the frame with trial count 0 returns when the frame with trial count
\* tc returns val: a frame that called the next one from its except clause
\* drops that call's value and falls off its end, returning None.
RECURSIVE HelperReturn(_, _)
HelperReturn(tc, val) == IF tc = 0 THEN val ELSE HelperReturn(tc - 1, "None")

\* the columns rename of the fetched table: the value a successful attempt returns
FetchedTable == "table"

-----------------------------------------------------------------------------
(* Parameter validation of the remote fetchers *)

\* the check with the last "not" dropped
AllDatesAbsent_nonot(a) == ~Given(a.start) /\ ~Given(a.end) /\ Given(a.report_date)

\* (not start) and (not end) and (not report_date)
AllDatesAbsent(a) == ~Given(a.start) /\ ~Given(a.end) /\ ~Given(a.report_date)

\* [pd.Timestamp(str(year) + tail) for tail in REPORT_DATE_TAILS]
report_date_lists(year) == {Ts(year * 10000 + REPORT_DATE_TAILS[i], 0) : i \in 1..Len(REPORT_DATE_TAILS)}

\* [str(year) + tail for tail in REPORT_DATE_TAILS]
std_report_dates(year) == {year * 10000 + REPORT_DATE_TAILS[i] : i \in 1..Len(REPORT_DATE_TAILS)}

\* individual fetcher: report_date in report_date_lists (Timestamps compared)
IndividualReportDateOk(rd) == rd \in report_date_lists(rd.y)

\* cross-section fetcher: report_date.strftime("%Y%m%d") in std_report_dates
CrosssectionReportDateOk(rd) == strftime(rd) \in std_report_dates(rd.y)

\* the quarter-ends of the years start.year .. end.year, in ascending order
origin_report_ranges(start, end) ==
    LET n == IF end.y >= start.y THEN end.y - start.y + 1 ELSE 0
    IN  [i \in 1..(n * Len(REPORT_DATE_TAILS)) |->
            Ts((start.y + (i - 1) \div Len(REPORT_DATE_TAILS)) * 10000
               + REPORT_DATE_TAILS[((i - 1) % Len(REPORT_DATE_TAILS)) + 1], 0)]

\* a range open at start
RangeReportDates_open(start, end) ==
    LET InRange(t) == TsKey(t) > TsKey(start) /\ TsKey(t) <= TsKey(end)
    IN  SelectSeq(origin_report_ranges(start, end), InRange)

\* origin_report_ranges.loc[(origin_report_ranges >= start) & (origin_report_ranges <= end)]
RangeReportDates(start, end) ==
    LET InRange(t) == TsKey(t) >= TsKey(start) /\ TsKey(t) <= TsKey(end)
    IN  SelectSeq(origin_report_ranges(start, end), InRange)

\* the range taking precedence over report_date
IndividualReportDates_range(a) ==
    IF Given(a.start) /\ Given(a.end) THEN RangeReportDates(a.start, a.end) ELSE <<a.report_date>>

\* the report periods the individual fetcher loops over
IndividualReportDates(a) ==
    IF Given(a.report_date) THEN <<a.report_date>> ELSE RangeReportDates(a.start, a.end)

\* the checks of the individual fetcher before its loop: Running when they pass
IndividualValidate(a) ==
    IF AllDatesAbsent(a) THEN Raise("ValueError", "[QRY_DATES ERROR]")
    ELSE IF Given(a.report_date)
         THEN IF ~IndividualReportDateOk(a.report_date) THEN Raise("ValueError", "[REPORT_DATE ERROR]")
              ELSE IF a.sheet_type \notin INDIVIDUAL_SHEET_TYPE THEN Raise("ValueError", "[SHEET_TYPE ERROR]")
              ELSE IF a.report_type \notin REMOTE_REPORT_TYPE THEN Raise("ValueError", "[REPORT_TYPE ERROR]")
              ELSE Running
         \* pd.Timestamp(None) is NaT, its year is nan, and pd.date_range refuses a NaT bound
         ELSE IF ~Given(a.start) \/ ~Given(a.end) THEN Raise("ValueError", "NaT")
              ELSE Running

\* the checks of the cross-section fetcher before its helper call
CrosssectionValidate(a) ==
    IF ~CrosssectionReportDateOk(a.report_date) THEN Raise("ValueError", "[REPORT_DATE ERROR]")
    ELSE IF a.sheet_type \notin SHEET_TYPE THEN Raise("ValueError", "[SHEET_TYPE ERROR]")
    ELSE IF a.report_type \notin REMOTE_REPORT_TYPE THEN Raise("ValueError", "[REPORT_TYTPE ERROR]")
    ELSE Running

-----------------------------------------------------------------------------
(* Date stamps and the documents of the local collection *)

IsLeap(y) == (y % 4 = 0 /\ y % 100 # 0) \/ y % 400 = 0

DaysInMonth(y, m) ==
    IF m = 2 THEN (IF IsLeap(y) THEN 29 ELSE 28)
    ELSE IF m \in {4, 6, 9, 11} THEN 30 ELSE 31

RECURSIVE DaysBeforeMonth(_, _)
DaysBeforeMonth(y, m) == IF m <= 1 THEN 0 ELSE DaysBeforeMonth(y, m - 1) + DaysInMonth(y, m - 1)

\* proleptic Gregorian day number of the date of a timestamp
ToOrdinal(ts) ==
    365 * (ts.y - 1) + (ts.y - 1) \div 4 - (ts.y - 1) \div 100 + (ts.y - 1) \div 400
    + DaysBeforeMonth(ts.y, ts.m) + ts.d

\* seconds from the epoch day to the ordinal day n
StampOfOrdinal(n) == (n - 719163) * 86400

\* QA_util_date_stamp: the stamp of midnight of the date; the time of day is cut off
QA_util_date_stamp(ts) == StampOfOrdinal(ToOrdinal(ts))

\* QA_util_date_stamp((pd.Timestamp(cursor_date) - pd.Timedelta(days=n)).strftime("%Y-%m-%d"))
StampDaysBefore(ts, n) == StampOfOrdinal(ToOrdinal(ts) - n)

\* columns of a stored statement (besides _id)
DocColumns == {"code", "ann_date", "report_date", "f_ann_date", "report_type", "report_label",
               "basic_eps", "report_date_stamp", "f_ann_date_stamp"}

\* a stored statement: the stamps are those of its dates
Doc(c, rd, fa, rt) ==
    [code |-> c, report_date |-> rd, f_ann_date |-> fa, report_type |-> rt,
     report_label |-> IF rd % 10000 = 331 THEN "1" ELSE IF rd % 10000 = 630 THEN "2"
                      ELSE IF rd % 10000 = 930 THEN "3" ELSE "4",
     report_date_stamp |-> QA_util_date_stamp(Ts(rd, 0)),
     f_ann_date_stamp |-> QA_util_date_stamp(Ts(fa, 0))]

CodeInputs == {"000001", "000002"}

\* <<report_date, report_type>> of the stored statements
DocStatements == {<<20181231, "1">>, <<20190331, "1">>, <<20190331, "2">>}

\* first-announcement dates of the stored statements
DocAnnDates == {20190728, 20190729, 20200830, 20200831}

DocUniverse == {Doc(c, st[1], fa, st[2]) : c \in CodeInputs, st \in DocStatements, fa \in DocAnnDates}

RECURSIVE SubsetsUpTo(_, _)
SubsetsUpTo(S, n) ==
    IF n = 0 THEN {{}}
    ELSE LET P == SubsetsUpTo(S, n - 1)
         IN  P \cup UNION {{T \cup {x} : x \in S \ T} : T \in {U \in P : Cardinality(U) = n - 1}}

\* the contents a collection DATABASE.<sheet_type> may have
Collections == SubsetsUpTo(DocUniverse, MaxRecords)

-----------------------------------------------------------------------------
(* coll.find(qry).sort(...) *)

\* does the document satisfy the filter
Match(q, doc) ==
    /\ q.has_code => doc.code \in q.code
    /\ q.has_range =>
          IF q.strict THEN doc.f_ann_date_stamp > q.lo /\ doc.f_ann_date_stamp < q.hi
                      ELSE doc.f_ann_date_stamp >= q.lo /\ doc.f_ann_date_stamp <= q.hi
    /\ doc.report_type \in q.report_type
    /\ q.has_label => doc.report_label = q.report_label
    /\ q.has_report_date => doc.report_date_stamp = q.report_date_stamp

Find(q, c) == {doc \in c : Match(q, doc)}

\* a comes no later than b under sort([(report_date_stamp, dir), (f_ann_date_stamp, dir)])
SortBefore(a, b, descending) ==
    IF descending
    THEN \/ a.report_date_stamp > b.report_date_stamp
         \/ a.report_date_stamp = b.report_date_stamp /\ a.f_ann_date_stamp >= b.f_ann_date_stamp
    ELSE \/ a.report_date_stamp < b.report_date_stamp
         \/ a.report_date_stamp = b.report_date_stamp /\ a.f_ann_date_stamp <= b.f_ann_date_stamp

\* the orders the sorted cursor may deliver S in (documents equal on both keys come in any order)
RECURSIVE SortedCursors(_, _)
SortedCursors(S, descending) ==
    IF S = {} THEN {<<>>}
    ELSE UNION {{<<x>> \o rest : rest \in SortedCursors(S \ {x}, descending)} :
                x \in {y \in S : \A z \in S : SortBefore(y, z, descending)}}

\* df.groupby("code").apply(lambda x: x.iloc[0]): the first row of each code
RECURSIVE GroupFirst(_, _)
GroupFirst(df, seen) ==
    IF df = <<>> THEN <<>>
    ELSE IF Head(df).code \in seen THEN GroupFirst(Tail(df), seen)
         ELSE <<Head(df)>> \o GroupFirst(Tail(df), seen \cup {Head(df).code})

-----------------------------------------------------------------------------
(* State of the local side before any local query *)

NoQry == [issued |-> FALSE]

NoFields == [kind |-> "none", vals |-> {}]

NoArgs == [start |-> NoDate, end |-> NoDate, report_date |-> NoDate]

Init ==
    /\ pc = "idle"
    /\ fn = "none"
    /\ args = NoArgs
    /\ report_dates = <<>>
    /\ trial_count = 0
    /\ trace = <<>>
    /\ results = <<>>
    /\ outcome = Running
    /\ coll = {}
    /\ qry = NoQry
    /\ fields = NoFields
    /\ rows = <<>>

LocalUnchanged == UNCHANGED <<coll, qry, fields, rows>>

-----------------------------------------------------------------------------
(* QA_fetch_get_individual_financial *)

\* the body up to the loop: validation and the list of report periods
QA_fetch_get_individual_financial ==
    /\ pc = "idle"
    /\ \E a \in RemoteArgs :
        /\ (Given(a.start) /\ Given(a.end)) => a.start.y <= a.end.y
        /\ fn' = "individual"
        /\ args' = a
        /\ outcome' = IndividualValidate(a)
        /\ IF IndividualValidate(a) = Running
           THEN /\ report_dates' = IndividualReportDates(a)
                /\ pc' = "ind_loop"
           ELSE /\ report_dates' = <<>>
                /\ pc' = "done"
    /\ UNCHANGED <<trial_count, trace, results>>
    /\ LocalUnchanged

\* for report_date in report_dates: the helper is entered with trial_count = 0
IndividualNextPeriod ==
    /\ pc = "ind_loop"
    /\ report_dates # <<>>
    /\ trial_count' = 0
    /\ pc' = "ind_try"
    /\ UNCHANGED <<fn, args, report_dates, trace, results, outcome>>
    /\ LocalUnchanged

\* after the loop: df.code of a frame no table was appended to has no column code
IndividualFinish ==
    /\ pc = "ind_loop"
    /\ report_dates = <<>>
    /\ outcome' = IF \E i \in 1..Len(results) : results[i].value = FetchedTable
                  THEN Returned
                  ELSE Raise("AttributeError", "code")
    /\ pc' = "done"
    /\ UNCHANGED <<fn, args, report_dates, trial_count, trace, results>>
    /\ LocalUnchanged

\* one entry of _get_individual_financial: the trial check, then the remote call
get_individual_financial ==
    /\ pc = "ind_try"
    /\ IF ExceedMaxTrial(trial_count, args.max_trial)
       THEN /\ outcome' = Raise("ValueError", "EXCEED MAX TRIAL")
            /\ pc' = "done"
            /\ UNCHANGED <<report_dates, trace, results>>
       ELSE \E ok \in BOOLEAN :
            /\ trace' = Append(trace, QueryEvent(args.sheet_type, strftime(Head(report_dates)),
                                                 args.report_type, ok))
            /\ IF ok
               THEN /\ results' = Append(results, [period |-> strftime(Head(report_dates)),
                                                   value |-> HelperReturn(trial_count, FetchedTable)])
                    /\ report_dates' = Tail(report_dates)
                    /\ pc' = "ind_loop"
               ELSE /\ pc' = "ind_sleep"
                    /\ UNCHANGED <<report_dates, results>>
            /\ UNCHANGED outcome
    /\ UNCHANGED <<fn, args, trial_count>>
    /\ LocalUnchanged

\* the except clause: sleep, then recurse with trial_count + 1
get_individual_financial_except ==
    /\ pc = "ind_sleep"
    /\ trace' = Append(trace, SleepEvent(SleepSeconds(args.wait_seconds, trial_count)))
    /\ trial_count' = trial_count + 1
    /\ pc' = "ind_try"
    /\ UNCHANGED <<fn, args, report_dates, results, outcome>>
    /\ LocalUnchanged

-----------------------------------------------------------------------------
(* QA_fetch_get_crosssection_financial *)

QA_fetch_get_crosssection_financial ==
    /\ pc = "idle"
    /\ \E a \in RemoteArgs :
        /\ a.start = NoDate /\ a.end = NoDate
        /\ Given(a.report_date)
        /\ fn' = "crosssection"
        /\ args' = a
        /\ outcome' = CrosssectionValidate(a)
        /\ IF CrosssectionValidate(a) = Running
           THEN /\ report_dates' = <<a.report_date>>
                /\ pc' = "cs_try"
           ELSE /\ report_dates' = <<>>
                /\ pc' = "done"
    /\ trial_count' = 0
    /\ UNCHANGED <<trace, results>>
    /\ LocalUnchanged

\* one entry of _get_crosssection_financial
get_crosssection_financial ==
    /\ pc = "cs_try"
    /\ IF ExceedMaxTrial(trial_count, args.max_trial)
       THEN /\ outcome' = Raise("ValueError", "EXCEED MAX TRIAL")
            /\ pc' = "done"
            /\ UNCHANGED <<report_dates, trace, results>>
       ELSE \E ok \in BOOLEAN :
            /\ trace' = Append(trace, QueryEvent(args.sheet_type \o "_vip", strftime(Head(report_dates)),
                                                 args.report_type, ok))
            /\ IF ok
               THEN /\ results' = Append(results, [period |-> strftime(Head(report_dates)),
                                                   value |-> HelperReturn(trial_count, FetchedTable)])
                    /\ report_dates' = Tail(report_dates)
                    /\ outcome' = Returned
                    /\ pc' = "done"
               ELSE /\ pc' = "cs_sleep"
                    /\ UNCHANGED <<report_dates, results, outcome>>
    /\ UNCHANGED <<fn, args, trial_count>>
    /\ LocalUnchanged

get_crosssection_financial_except ==
    /\ pc = "cs_sleep"
    /\ trace' = Append(trace, SleepEvent(SleepSeconds(args.wait_seconds, trial_count)))
    /\ trial_count' = trial_count + 1
    /\ pc' = "cs_try"
    /\ UNCHANGED <<fn, args, report_dates, results, outcome>>
    /\ LocalUnchanged

-----------------------------------------------------------------------------
(* Inputs of the local queries *)

\* code: None, one code, or a list of codes
CodeArgInputs == {[kind |-> "none", vals |-> {}],
                  [kind |-> "str", vals |-> {"000001"}],
                  [kind |-> "list", vals |-> CodeInputs]}

\* report_type: None, an int, a str, or a list; vals holds the str() of the members
ReportTypeArgInputs == {[kind |-> "none", vals |-> {}],
                        [kind |-> "int", vals |-> {"1"}],
                        [kind |-> "str", vals |-> {"2"}],
                        [kind |-> "list", vals |-> {"1", "4"}]}

\* fields: None, one name, a list or a tuple of names
FieldsArgInputs == {[kind |-> "none", vals |-> {}],
                    [kind |-> "str", vals |-> {"basic_eps"}],
                    [kind |-> "list", vals |-> {"basic_eps", "code"}],
                    [kind |-> "tuple", vals |-> {"basic_eps"}]}

CursorDateInputs == {Ts(20200831, 0), Ts(20200831, 1)}

\* report_label: None ("") or a quarter label
ReportLabelInputs == {"", "4"}

LastArgs == [code : CodeArgInputs, cursor_date : CursorDateInputs, report_label : ReportLabelInputs,
             report_type : ReportTypeArgInputs, sheet_type : {"income", "forecast"},
             fields : FieldsArgInputs]

AdvStartInputs == {NoDate, Ts(20190729, 0)}

AdvEndInputs == {NoDate, Ts(20200830, 0)}

AdvReportDateInputs == {NoDate, Ts(20181231, 0)}

\* datetime.date.today()
TodayInputs == {Ts(20200901, 0)}

AdvArgs == [code : {c \in CodeArgInputs : c.kind # "list"}, start : AdvStartInputs, end : AdvEndInputs,
            report_date : AdvReportDateInputs,
            report_type : {rt \in ReportTypeArgInputs : rt.kind # "str"},
            sheet_type : {"income"}, fields : {f \in FieldsArgInputs : f.kind # "list"}]

-----------------------------------------------------------------------------
(* Query construction shared by the local queries *)

\* bool(code): None and the empty list are falsy
CodeGiven(code) == code.kind # "none" /\ code.vals # {}

KEY_FIELDS == {"code", "ann_date", "report_date", "f_ann_date"}

Filter(hasCode, code, hasRange, strict, lo, hi, rts, hasLabel, label, hasRd, rdStamp) ==
    [issued |-> TRUE, has_code |-> hasCode, code |-> code, has_range |-> hasRange,
     strict |-> strict, lo |-> lo, hi |-> hi, report_type |-> rts,
     has_label |-> hasLabel, report_label |-> label,
     has_report_date |-> hasRd, report_date_stamp |-> rdStamp]

-----------------------------------------------------------------------------
(* QA_fetch_last_financial *)

\* days of the lookback window
LOOKBACK_DAYS == 400

LAST_REPORT_TYPE == {"1", "4", "5"}

\* the report_type block: Running when it passes
LastReportTypeOutcome(rt) ==
    IF rt.kind = "none" THEN Running
    ELSE IF rt.kind \in {"int", "str"}
         THEN IF rt.vals \subseteq LAST_REPORT_TYPE THEN Running
              ELSE Raise("ValueError", "[REPORT_TYPE ERROR]")
         \* set('1', '4', '5'): set() takes at most one argument
         ELSE Raise("TypeError", "set expected at most 1 argument, got 3")

\* the report types the query asks for
LastReportTypes(rt) == IF rt.kind = "none" THEN LAST_REPORT_TYPE ELSE rt.vals

\* the fields block: a tuple cannot be concatenated with a list
LastFieldsOutcome(f) ==
    IF f.kind = "tuple" /\ f.vals # {} THEN Raise("TypeError", "can only concatenate tuple") ELSE Running

LastFields(f) ==
    IF f.kind = "str" \/ f.vals # {} THEN [kind |-> "list", vals |-> f.vals \cup KEY_FIELDS]
    ELSE NoFields

\* "$gt" and "$lt" of f_ann_date_stamp
LastWindowLo(cursor_date) == StampDaysBefore(cursor_date, LOOKBACK_DAYS)

LastWindowHi_nextday(cursor_date) == QA_util_date_stamp(cursor_date) + 86400

LastWindowHi(cursor_date) == QA_util_date_stamp(cursor_date)

\* qry of the four code / report_label branches
LastQry(code, cursor_date, report_label, rts) ==
    IF ~CodeGiven(code) /\ report_label = ""
    THEN Filter(FALSE, {}, TRUE, TRUE, LastWindowLo(cursor_date), LastWindowHi(cursor_date),
                rts, FALSE, "", FALSE, 0)
    ELSE IF report_label = ""
    THEN Filter(TRUE, code.vals, TRUE, TRUE, LastWindowLo(cursor_date), LastWindowHi(cursor_date),
                rts, FALSE, "", FALSE, 0)
    ELSE IF ~CodeGiven(code)
    THEN Filter(FALSE, {}, TRUE, TRUE, LastWindowLo(cursor_date), LastWindowHi(cursor_date),
                rts, TRUE, report_label, FALSE, 0)
    ELSE Filter(TRUE, code.vals, TRUE, TRUE, LastWindowLo(cursor_date), LastWindowHi(cursor_date),
                rts, TRUE, report_label, FALSE, 0)

\* the checks before the collection is read: Running when they pass
LastValidate(a) ==
    IF LastReportTypeOutcome(a.report_type) # Running THEN LastReportTypeOutcome(a.report_type)
    ELSE IF a.sheet_type \notin SHEET_TYPE THEN Raise("ValueError", "[SHEET_TYPE ERROR]")
    ELSE LastFieldsOutcome(a.fields)

\* an empty frame passing the try block, as in the queries that test res.empty
LastFrameError_empty(ok, cursor, f) == ~ok \/ ~(f.vals \subseteq DocColumns)

\* does the try block raise: reading the cursor failed, or
\* pd.DataFrame(cursor).drop(columns="_id")[fields] raises KeyError on an
\* empty frame or a missing column; the bare except turns all into [QRY ERROR]
LastFrameError(ok, cursor, f) == ~ok \/ cursor = <<>> \/ ~(f.vals \subseteq DocColumns)

\* x.iloc[-1] in place of x.iloc[0]
LastRows_last(cursor) == GroupFirst([i \in 1..Len(cursor) |-> cursor[Len(cursor) + 1 - i]], {})

\* the rows the call returns from the sorted cursor
LastRows(cursor) == GroupFirst(cursor, {})

QA_fetch_last_financial ==
    /\ pc = "idle"
    /\ \E a \in LastArgs :
        /\ fn' = "last_financial"
        /\ args' = a
        /\ IF LastValidate(a) # Running
           THEN /\ outcome' = LastValidate(a)
                /\ UNCHANGED <<coll, qry, fields, rows>>
                /\ UNCHANGED trace
           \* the cursor is read inside the try block; when the read fails no document arrives
           ELSE \E ok \in BOOLEAN : \E c \in (IF ok THEN Collections ELSE {{}}) :
                LET q == LastQry(a.code, a.cursor_date, a.report_label, LastReportTypes(a.report_type))
                    f == LastFields(a.fields)
                IN  /\ coll' = c
                    /\ qry' = q
                    /\ fields' = f
                    /\ trace' = <<FindEvent(a.sheet_type, ok)>>
                    /\ \E cursor \in SortedCursors(Find(q, c), TRUE) :
                        IF LastFrameError(ok, cursor, f)
                        THEN /\ outcome' = Raise("ValueError", "[QRY ERROR]")
                             /\ rows' = <<>>
                        ELSE /\ outcome' = Returned
                             /\ rows' = LastRows(cursor)
    /\ pc' = "done"
    /\ UNCHANGED <<report_dates, trial_count, results>>

-----------------------------------------------------------------------------
(* QA_fetch_financial_adv *)

ADV_REPORT_TYPE == {"1", "2", "4", "5", "11"}

AdvReportTypes(rt) == IF rt.vals = {} THEN ADV_REPORT_TYPE ELSE rt.vals

AdvFields(f) ==
    IF f.kind = "str" \/ f.vals # {} THEN [kind |-> "list", vals |-> f.vals \cup KEY_FIELDS]
    ELSE NoFields

\* the checks before the query: Running when they pass
AdvValidate(a) ==
    IF AllDatesAbsent(a) THEN Raise("ValueError", "[DATE ERROR]")
    \* QA_util_date_stamp of pd.Timestamp(None) cannot be parsed as a date
    ELSE IF ~Given(a.report_date) /\ ~Given(a.start) THEN Raise("ValueError", "NaT")
    ELSE Running

\* qry of the four report_date / code branches
AdvQry(a, today) ==
    IF ~Given(a.report_date)
    THEN LET end == IF Given(a.end) THEN a.end ELSE today
         IN  Filter(CodeGiven(a.code), IF CodeGiven(a.code) THEN a.code.vals ELSE {},
                    TRUE, FALSE, QA_util_date_stamp(a.start), QA_util_date_stamp(end),
                    AdvReportTypes(a.report_type), FALSE, "", FALSE, 0)
    ELSE Filter(CodeGiven(a.code), IF CodeGiven(a.code) THEN a.code.vals ELSE {},
                FALSE, FALSE, 0, 0,
                AdvReportTypes(a.report_type), FALSE, "", TRUE, QA_util_date_stamp(a.report_date))

QA_fetch_financial_adv ==
    /\ pc = "idle"
    /\ \E a \in AdvArgs, today \in TodayInputs :
        /\ fn' = "financial_adv"
        /\ args' = a
        /\ IF AdvValidate(a) # Running
           THEN /\ outcome' = AdvValidate(a)
                /\ UNCHANGED <<coll, qry, fields, rows>>
                /\ UNCHANGED trace
           ELSE \E ok \in BOOLEAN : \E c \in (IF ok THEN Collections ELSE {{}}) :
                LET q == AdvQry(a, today)
                    f == AdvFields(a.fields)
                IN  /\ coll' = c
                    /\ qry' = q
                    /\ fields' = f
                    /\ trace' = <<FindEvent(a.sheet_type, ok)>>
                    /\ \E cursor \in SortedCursors(Find(q, c), FALSE) :
                        \* no try block here: the error of a failed read passes to the caller
                        IF ~ok
                        THEN /\ outcome' = Raise("PyMongoError", "")
                             /\ rows' = <<>>
                        \* drop(columns="_id") of an empty frame, or a missing column: KeyError
                        ELSE IF cursor = <<>> \/ ~(f.vals \subseteq DocColumns)
                        THEN /\ outcome' = Raise("KeyError", "_id")
                             /\ rows' = <<>>
                        ELSE /\ outcome' = Returned
                             /\ rows' = cursor
    /\ pc' = "done"
    /\ UNCHANGED <<report_dates, trial_count, results>>

-----------------------------------------------------------------------------
(* QA_fetch_industry_adv *)

\* an industry classification record: code, level, source, validity interval
IndustryDoc(c, level, src, in_date, out_date) ==
    [code |-> c, level |-> level, src |-> src, in_date |-> in_date, out_date |-> out_date,
     in_date_stamp |-> QA_util_date_stamp(Ts(in_date, 0)),
     out_date_stamp |-> QA_util_date_stamp(Ts(out_date, 0))]

\* <<in_date, out_date>> of the stored classifications
IndustryIntervals == {<<20190101, 20200830>>, <<20190101, 20200831>>,
                      <<20200831, 20210101>>, <<20200901, 20210101>>}

IndustryUniverse ==
    {IndustryDoc(c, l, "sw", iv[1], iv[2]) : c \in CodeInputs, l \in {"l1", "l2"}, iv \in IndustryIntervals}
    \cup {IndustryDoc("000001", "l1", "zx", 20190101, 20210101)}

\* the contents DATABASE.industry may have
IndustryCollections == SubsetsUpTo(IndustryUniverse, MaxRecords)

\* levels: None or one level name
LevelsArgInputs == {[kind |-> "none", vals |-> {}], [kind |-> "str", vals |-> {"L1"}]}

IndustryArgs == [code : CodeArgInputs, cursor_date : {NoDate, Ts(20200831, 0)},
                 start : {NoDate, Ts(20200831, 0)}, end : {NoDate, Ts(20200830, 0)},
                 levels : LevelsArgInputs, src : {"sw", "SW"}]

\* str.lower() of the level and source names
Lower(x) == IF x = "L1" THEN "l1" ELSE IF x = "SW" THEN "sw" ELSE x

\* QA_fetch_stock_list().index.tolist(): the codes of all stocks
StockList == CodeInputs

\* the codes asked for
IndustryCodes(code) == IF ~CodeGiven(code) THEN StockList ELSE code.vals

\* the levels asked for, in lower case
IndustryLevels(levels) ==
    IF levels.vals = {} THEN {"l1", "l2", "l3"} ELSE {Lower(l) : l \in levels.vals}

\* qry of the three cursor_date / start branches
IndustryQry(a) ==
    [issued |-> TRUE, code |-> IndustryCodes(a.code), level |-> IndustryLevels(a.levels),
     src |-> Lower(a.src),
     has_in |-> Given(a.cursor_date) \/ Given(a.start),
     in_hi |-> IF Given(a.cursor_date) THEN QA_util_date_stamp(a.cursor_date)
               ELSE IF Given(a.start) THEN QA_util_date_stamp(a.start) ELSE 0]

IndustryMatch(q, doc) ==
    /\ doc.code \in q.code
    /\ doc.level \in q.level
    /\ doc.src = q.src
    /\ q.has_in => doc.in_date_stamp <= q.in_hi

\* the orders an unsorted cursor may deliver S in
RECURSIVE Cursors(_)
Cursors(S) ==
    IF S = {} THEN {<<>>}
    ELSE UNION {{<<x>> \o rest : rest \in Cursors(S \ {x})} : x \in S}

\* df_tmp.loc[df_tmp.out_date_stamp > QA_util_date_stamp(date)]
OutAfter(df, date) ==
    LET Valid(doc) == doc.out_date_stamp > QA_util_date_stamp(date)
    IN  SelectSeq(df, Valid)

\* the frame returned: with start / end the selection by end is assigned to
\* df_tmp; with cursor_date the selection is evaluated and its value dropped
IndustryRows(a, df) ==
    IF ~Given(a.cursor_date)
    THEN IF Given(a.end) THEN OutAfter(df, a.end) ELSE df
    ELSE df

QA_fetch_industry_adv ==
    /\ pc = "idle"
    /\ \E a \in IndustryArgs :
        /\ fn' = "industry_adv"
        /\ args' = a
        /\ \E ok \in BOOLEAN : \E c \in (IF ok THEN IndustryCollections ELSE {{}}) :
             LET q == IndustryQry(a)
                 found == {doc \in c : IndustryMatch(q, doc)}
             IN  /\ coll' = c
                 /\ qry' = q
                 /\ trace' = <<FindEvent("industry", ok)>>
                 /\ \E df \in Cursors(found) :
                      \* coll.count_documents raises when the store cannot be read
                      IF ~ok
                      THEN /\ outcome' = Raise("PyMongoError", "")
                           /\ rows' = <<>>
                      \* count_documents(filter=qry) < 1: an empty frame is returned
                      ELSE IF found = {}
                      THEN /\ outcome' = Returned
                           /\ rows' = <<>>
                      ELSE /\ outcome' = Returned
                           /\ rows' = IndustryRows(a, df)
    /\ pc' = "done"
    /\ UNCHANGED <<report_dates, trial_count, results, fields>>

-----------------------------------------------------------------------------
(* The call is over (returned or raised); the caller may call again.  No    *)
(* state is shared between calls.                                          *)

Finish ==
    /\ pc = "done"
    /\ pc' = "idle"
    /\ fn' = "none"
    /\ args' = NoArgs
    /\ report_dates' = <<>>
    /\ trial_count' = 0
    /\ trace' = <<>>
    /\ results' = <<>>
    /\ outcome' = Running
    /\ coll' = {}
    /\ qry' = NoQry
    /\ fields' = NoFields
    /\ rows' = <<>>

Next ==
    \/ QA_fetch_get_individual_financial
    \/ IndividualNextPeriod
    \/ IndividualFinish
    \/ get_individual_financial
    \/ get_individual_financial_except
    \/ QA_fetch_get_crosssection_financial
    \/ get_crosssection_financial
    \/ get_crosssection_financial_except
    \/ QA_fetch_last_financial
    \/ QA_fetch_financial_adv
    \/ QA_fetch_industry_adv
    \/ Finish

Spec == Init /\ [][Next]_vars

\* the remote fetchers alone; every step of a call is eventually taken
NextRemote ==
    \/ QA_fetch_get_individual_financial
    \/ IndividualNextPeriod
    \/ IndividualFinish
    \/ get_individual_financial
    \/ get_individual_financial_except
    \/ QA_fetch_get_crosssection_financial
    \/ get_crosssection_financial
    \/ get_crosssection_financial_except
    \/ Finish

RemoteSpec == Init /\ [][NextRemote]_vars /\ WF_vars(NextRemote)

-----------------------------------------------------------------------------
(* Properties of the retry helpers *)

Remote == fn \in {"individual", "crosssection"}

InRetry == pc \in {"ind_try", "ind_sleep", "cs_try", "cs_sleep"}

ExceedError == Raise("ValueError", "EXCEED MAX TRIAL")

\* positions in the trace of the remote calls for period p
AttemptsOf(p) == {i \in DOMAIN trace : trace[i].kind = "query" /\ trace[i].period = p}

FailedOf(p) == {i \in AttemptsOf(p) : ~trace[i].ok}

FirstAttemptOf(p) == CHOOSE i \in AttemptsOf(p) : \A k \in AttemptsOf(p) : i <= k

C1_Bounded ==
    Remote =>
       /\ \A i \in DOMAIN trace :
             trace[i].kind = "query" => Cardinality(AttemptsOf(trace[i].period)) <= args.max_trial
       /\ (pc = "done" /\ report_dates # <<>>
             /\ Cardinality(FailedOf(strftime(Head(report_dates)))) = args.max_trial)
          => outcome = ExceedError
       /\ outcome.msg = ExceedError.msg
          => /\ outcome = ExceedError
             /\ report_dates # <<>>
             /\ Cardinality(FailedOf(strftime(Head(report_dates)))) = args.max_trial
             /\ AttemptsOf(strftime(Head(report_dates))) = FailedOf(strftime(Head(report_dates)))

\* C1: for one report period the remote call is attempted at most max_trial
\* times; when all of them fail the call raises the value error EXCEED MAX
\* TRIAL; and every retry sequence comes to an end.
C1_RetryBounded == []C1_Bounded /\ (InRetry ~> ~InRetry)

C1_Witness ==
    /\ fn = "individual" /\ pc = "done" /\ outcome = ExceedError
    /\ args.max_trial >= 2
    /\ Cardinality(FailedOf(strftime(Head(report_dates)))) = args.max_trial

\* C2: the helper delivers the fetched table only when the first attempt for
\* the period succeeded; when a retry succeeded its result is None.
C2_RetryResultDropped ==
    Remote =>
       \A j \in DOMAIN results :
          /\ AttemptsOf(results[j].period) # {}
          /\ results[j].value =
                IF trace[FirstAttemptOf(results[j].period)].ok THEN FetchedTable ELSE "None"

C2_Witness ==
    /\ fn = "crosssection" /\ pc = "done" /\ outcome = Returned
    /\ Len(results) = 1 /\ results[1].value = "None"
    /\ trace[Len(trace)].kind = "query" /\ trace[Len(trace)].ok

\* C3: a failed attempt is followed by exactly one wait of wait_seconds before
\* the next attempt, the same for every attempt, and nothing else is waited for.
C3_ConstantWait ==
    Remote =>
       \A i \in DOMAIN trace :
          /\ (trace[i].kind = "query" /\ ~trace[i].ok /\ i < Len(trace))
             => trace[i + 1] = SleepEvent(args.wait_seconds)
          /\ trace[i].kind = "sleep"
             => /\ trace[i].secs = args.wait_seconds
                /\ i > 1 /\ trace[i - 1].kind = "query" /\ ~trace[i - 1].ok
          /\ (trace[i].kind = "query" /\ trace[i].ok /\ i < Len(trace))
             => trace[i + 1].kind = "query"

C3_Witness ==
    /\ Remote /\ args.wait_seconds = 61
    /\ Cardinality({i \in DOMAIN trace : trace[i].kind = "sleep"}) >= 2
    /\ trace[Len(trace)].kind = "query"

-----------------------------------------------------------------------------
(* Properties of the parameter validation *)

NoRemoteQuery == \A i \in DOMAIN trace : trace[i].kind # "query"

\* C4: with start, end and report_date all absent the individual fetcher and
\* QA_fetch_financial_adv raise their date value error and query nothing.
C4_DatesRequired ==
    (fn \in {"individual", "financial_adv"}
        /\ ~Given(args.start) /\ ~Given(args.end) /\ ~Given(args.report_date))
    => /\ pc = "done"
       /\ outcome = Raise("ValueError", IF fn = "individual" THEN "[QRY_DATES ERROR]" ELSE "[DATE ERROR]")
       /\ NoRemoteQuery
       /\ ~qry.issued

C4_Witness ==
    /\ fn = "financial_adv" /\ pc = "done"
    /\ ~Given(args.start) /\ ~Given(args.end) /\ ~Given(args.report_date)
    /\ outcome.kind = "ValueError"

\* is the date of the timestamp a quarter-end
IsQuarterEnd(ts) == ts.m * 100 + ts.d \in {331, 630, 930, 1231}

\* C5: a report_date that is not a quarter-end makes both remote fetchers
\* raise the report-date value error without a remote query, and every
\* quarter-end report_date passes that check.
C5_QuarterEndOnly ==
    (Remote /\ Given(args.report_date))
    => IF IsQuarterEnd(args.report_date)
       THEN outcome.msg # "[REPORT_DATE ERROR]"
       ELSE pc = "done" /\ outcome = Raise("ValueError", "[REPORT_DATE ERROR]") /\ NoRemoteQuery

\* the sheet types a fetcher supports
SupportedSheets == IF fn = "individual" THEN INDIVIDUAL_SHEET_TYPE ELSE SHEET_TYPE

\* C6: in every call of the remote fetchers an unsupported sheet type or a
\* report type outside 1..12 raises a value error before any remote query.
C6_SheetAndTypeChecked ==
    (Remote /\ (args.sheet_type \notin SupportedSheets \/ args.report_type \notin 1..12))
    => /\ NoRemoteQuery
       /\ pc = "done" => outcome.kind = "ValueError"

-----------------------------------------------------------------------------
(* Properties of QA_fetch_last_financial *)

LastReturned == fn = "last_financial" /\ outcome = Returned

\* day number of a "%Y%m%d" date
DayOf(ymd) == ToOrdinal(Ts(ymd, 0))

\* C7: every record QA_fetch_last_financial returns was first announced
\* strictly before cursor_date and strictly after cursor_date - 400 days.
C7_NoLookAhead ==
    LastReturned =>
       \A i \in DOMAIN rows :
          /\ rows[i].f_ann_date < strftime(args.cursor_date)
          /\ DayOf(rows[i].f_ann_date) > DayOf(strftime(args.cursor_date)) - 400

C7_Witness ==
    /\ LastReturned /\ CodeGiven(args.code) /\ args.report_label # ""
    /\ Len(rows) = 1 /\ DayOf(rows[1].f_ann_date) = DayOf(strftime(args.cursor_date)) - 399
    /\ \E d \in coll : d.f_ann_date = strftime(args.cursor_date) /\ d.code = rows[1].code

\* the documents that pass the filter of the call, stated on their dates
Passing ==
    {d \in coll :
        /\ d.f_ann_date < strftime(args.cursor_date)
        /\ DayOf(d.f_ann_date) > DayOf(strftime(args.cursor_date)) - 400
        /\ d.report_type \in (IF args.report_type.kind = "none" THEN {"1", "4", "5"}
                              ELSE args.report_type.vals)
        /\ (args.code.kind # "none" => d.code \in args.code.vals)
        /\ (args.report_label # "" => d.report_label = args.report_label)}

\* C8: at most one record per code is returned; for every code with a passing
\* record it is a passing record with the latest report_date, and among
\* those the latest first-announcement date.
C8_LatestPerCode ==
    LastReturned =>
       /\ \A i, j \in DOMAIN rows : rows[i].code = rows[j].code => i = j
       /\ \A i \in DOMAIN rows : rows[i] \in Passing
       /\ \A d \in Passing :
             \E i \in DOMAIN rows :
                /\ rows[i].code = d.code
                /\ \/ rows[i].report_date > d.report_date
                   \/ rows[i].report_date = d.report_date /\ rows[i].f_ann_date >= d.f_ann_date

C8_Witness ==
    /\ LastReturned /\ args.code.kind = "str"
    /\ Len(rows) = 1
    /\ \E d \in Passing : d.report_date < rows[1].report_date /\ d.f_ann_date > rows[1].f_ann_date

\* C9: QA_fetch_last_financial queries report types 1, 4, 5 only: all three
\* when report_type is absent, a value error for a single type outside them,
\* and for a list the members among 1, 4, 5, with which the query proceeds.
C9_ReportTypeNarrowed ==
    fn = "last_financial" =>
       /\ qry.issued => qry.report_type \subseteq {"1", "4", "5"}
       /\ (args.report_type.kind = "none" /\ qry.issued) => qry.report_type = {"1", "4", "5"}
       /\ (args.report_type.kind \in {"int", "str"} /\ ~(args.report_type.vals \subseteq {"1", "4", "5"}))
          => outcome = Raise("ValueError", "[REPORT_TYPE ERROR]")
       /\ args.report_type.kind = "list"
          => /\ outcome.kind # "TypeError"
             /\ qry.issued => qry.report_type = args.report_type.vals \cap {"1", "4", "5"}
             /\ (args.sheet_type \in SHEET_TYPE /\ args.fields.kind # "tuple") => qry.issued

-----------------------------------------------------------------------------
(* report_date takes precedence over start and end *)

\* C10: with report_date given, the individual fetcher queries that one
\* period only and QA_fetch_financial_adv filters on that period with no
\* announcement-date range, whatever start and end are.
C10_ReportDateOverrides ==
    /\ (fn = "individual" /\ Given(args.report_date))
       => /\ \A i \in DOMAIN trace : trace[i].kind = "query" => trace[i].period = strftime(args.report_date)
          /\ \A i \in DOMAIN report_dates : report_dates[i] = args.report_date
          /\ Len(report_dates) + Len(results) <= 1
    /\ (fn = "financial_adv" /\ Given(args.report_date))
       => /\ qry.issued /\ ~qry.has_range
          /\ \A d \in coll :
                (\E i \in DOMAIN rows : rows[i] = d)
                <=> /\ outcome = Returned
                    /\ d.report_date = strftime(args.report_date)
                    /\ d.report_type \in (IF args.report_type.kind = "none"
                                          THEN {"1", "2", "4", "5", "11"} ELSE args.report_type.vals)
                    /\ (args.code.kind # "none" => d.code \in args.code.vals)

C10_Witness ==
    /\ fn = "financial_adv" /\ outcome = Returned
    /\ Given(args.report_date) /\ Given(args.start) /\ Given(args.end)
    /\ \E i \in DOMAIN rows : rows[i].f_ann_date > strftime(args.end)

-----------------------------------------------------------------------------
(* Errors of the local query of QA_fetch_last_financial *)

QryError == Raise("ValueError", "[QRY ERROR]")

\* the read of the local cursor of the call failed
FindFailed == \E i \in DOMAIN trace : trace[i].kind = "find" /\ ~trace[i].ok

\* C11: in every code / report_label branch of QA_fetch_last_financial a
\* failed local query and a query matching no record end with the value
\* error [QRY ERROR]; no empty table is returned and no other error gets out.
C11_QryErrorMasks ==
    (fn = "last_financial" /\ qry.issued)
    => /\ (FindFailed \/ Passing = {}) => (outcome = QryError /\ rows = <<>>)
       /\ outcome = Returned => rows # <<>>
       /\ outcome \in {Returned, QryError}

C11_Witness ==
    /\ fn = "last_financial" /\ outcome = QryError
    /\ ~FindFailed /\ coll # {} /\ Passing = {}
    /\ CodeGiven(args.code) /\ args.report_label # ""

-----------------------------------------------------------------------------
(* Validity of the classifications QA_fetch_industry_adv returns *)

\* C12: with a cursor_date QA_fetch_industry_adv returns only records of the
\* requested codes, levels and source whose in-date is on or before
\* cursor_date and whose out-date is after cursor_date.
C12_ValidOnCursorDate ==
    (fn = "industry_adv" /\ Given(args.cursor_date) /\ outcome = Returned)
    => \A i \in DOMAIN rows :
          /\ args.code.kind # "none" => rows[i].code \in args.code.vals
          /\ rows[i].level \in (IF args.levels.kind = "none" THEN {"l1", "l2", "l3"} ELSE {"l1"})
          /\ rows[i].src = "sw"
          /\ rows[i].in_date <= strftime(args.cursor_date)
          /\ rows[i].out_date > strftime(args.cursor_date)

-----------------------------------------------------------------------------
(* Report types of QA_fetch_financial_adv *)

\* C13: QA_fetch_financial_adv called without a report_type returns records
\* of report type 1 only.
C13_DefaultReportTypeOne ==
    (fn = "financial_adv" /\ args.report_type.kind = "none" /\ outcome = Returned)
    => \A i \in DOMAIN rows : rows[i].report_type = "1"

-----------------------------------------------------------------------------
(* The report periods of a start / end range *)

RangeCall ==
    fn = "individual" /\ ~Given(args.report_date) /\ Given(args.start) /\ Given(args.end)

\* the quarter-ends d (at midnight) with start <= d <= end, as "%Y%m%d"
ExpectedPeriods ==
    {p \in {y * 10000 + t : y \in 2018..2021, t \in {331, 630, 930, 1231}} :
        /\ p * 2 >= (args.start.y * 10000 + args.start.m * 100 + args.start.d) * 2 + args.start.tod
        /\ p * 2 <= (args.end.y * 10000 + args.end.m * 100 + args.end.d) * 2 + args.end.tod}

\* the periods whose retry sequence is over, then those still to come
Schedule ==
    [i \in 1..(Len(results) + Len(report_dates)) |->
        IF i <= Len(results) THEN results[i].period
        ELSE report_dates[i - Len(results)].y * 10000 + report_dates[i - Len(results)].m * 100
             + report_dates[i - Len(results)].d]

\* C14: with start and end and no report_date the individual fetcher runs one
\* retry sequence for each quarter-end d with start <= d <= end, in ascending
\* order, queries no other period, and queries nothing when there is none.
C14_RangePeriods ==
    RangeCall =>
       /\ {Schedule[i] : i \in DOMAIN Schedule} = ExpectedPeriods
       /\ \A i, j \in DOMAIN Schedule : i < j => Schedule[i] < Schedule[j]
       /\ \A i \in DOMAIN trace : trace[i].kind = "query" => trace[i].period \in ExpectedPeriods
       /\ \A i, j \in DOMAIN trace :
             (i < j /\ trace[i].kind = "query" /\ trace[j].kind = "query")
             => trace[i].period <= trace[j].period
       /\ (pc = "done" /\ outcome.msg # "EXCEED MAX TRIAL")
          => \A p \in ExpectedPeriods : \E i \in DOMAIN trace : trace[i].kind = "query" /\ trace[i].period = p
       /\ ExpectedPeriods = {} => NoRemoteQuery

C14_Witness ==
    /\ RangeCall /\ pc = "done" /\ outcome = Returned
    /\ args.start.y < args.end.y
    /\ Len(results) = 3
    /\ results[1].period = 20191231 /\ results[3].period = 20200630

-----------------------------------------------------------------------------
(* The projected fields of the local queries *)

\* the checks of the call other than those on fields passed
OtherChecksPassed ==
    IF fn = "last_financial"
    THEN LastReportTypeOutcome(args.report_type) = Running /\ args.sheet_type \in SHEET_TYPE
    ELSE AdvValidate(args) = Running

\* C15: in QA_fetch_financial_adv and QA_fetch_last_financial a non-empty
\* fields (one name or a collection) is projected as its union with code,
\* ann_date, report_date and f_ann_date, and an empty or absent fields
\* projects nothing.
C15_FieldUnion ==
    (fn \in {"financial_adv", "last_financial"} /\ OtherChecksPassed)
    => IF args.fields.vals # {}
       THEN /\ qry.issued
            /\ fields.kind = "list"
            /\ fields.vals = args.fields.vals \cup {"code", "ann_date", "report_date", "f_ann_date"}
       ELSE qry.issued /\ fields = NoFields

====
